---- MODULE Spec2Model ----
(***************************************************************************)
(* Model of rsmith-nl/repotools: makedb.py (catalog build and              *)
(* reconciliation of the on-disk artifacts) and repotool.py (dependency    *)
(* closure, get, delete, leaves, upgrade).                                 *)
(*                                                                         *)
(* An artifact's file name "repo/All/<name>-<version>.pkg" is modelled as  *)
(* the record [name, ver]; the slicing and rsplit("-", maxsplit=1) of the  *)
(* source are the projections FileName and FileVer.  A repopath            *)
(* "All/<name>-<version>.pkg" is the same record.                          *)
(***************************************************************************)
EXTENDS Integers, Sequences, FiniteSets, TLC

\* ------------------------------------------------------------------ bounds
MaxDeps == 2
MaxRounds == 6
MaxRuns == 2

\* ------------------------------------------------------- program constants
\* cur.fetchone() on an empty result: Python's None.  Row ids start at 1.
None == 0
\* idbyname.get(depname, -1): the id of a dependency that has no package row.
Unresolved == -1

\* ------------------------------------------------------------- value sets
PkgNames == {"a", "b", "c"}
DepNames == PkgNames \cup {"x"}
Versions == {1, 2}
DepSets == {d \in SUBSET DepNames : Cardinality(d) <= MaxDeps}

File(n, v) == [name |-> n, ver |-> v]
Files == {File(n, v) : n \in PkgNames, v \in Versions}
\* pkgname, curver = completename[9:-4].rsplit("-", maxsplit=1)
FileName(f) == f.name
FileVer(f) == f.ver

\* get_manifest raising ValueError: no manifest could be extracted.
NoManifest == [ok |-> FALSE, complete |-> FALSE, name |-> "", version |-> 0, deps |-> {}]
\* No file at a path.
NoFile == [here |-> FALSE, sum |-> 0, size |-> 0, man |-> NoManifest]

\* One line of packagesite.yaml: the scalar fields the programs read, and deps.
Manifest(n, v, s, z, d) ==
    [name |-> n, version |-> v, sum |-> s, pkgsize |-> z,
     repopath |-> File(n, v), deps |-> d]

\* What the repository publishes for a package: version 1, checksum 1, size 1.
Published(n, d) == Manifest(n, 1, 1, 1, d)

\* An artifact: its bytes (hash and length) and its +COMPACT_MANIFEST.
Artifact(s, z, m) == [here |-> TRUE, sum |-> s, size |-> z, man |-> m]
Embedded(f, d) ==
    [ok |-> TRUE, complete |-> TRUE, name |-> FileName(f), version |-> FileVer(f),
     deps |-> d]
\* A manifest that lacks one of the members insert_pkg reads with pkg[...].
Incomplete(f) ==
    [ok |-> TRUE, complete |-> FALSE, name |-> FileName(f), version |-> FileVer(f),
     deps |-> {}]

VARIABLES
    feed,        \* packagesite.yaml
    disk,        \* repo/All: file -> artifact or NoFile
    packages,    \* makedb: the list `packages`
    dbpackages,  \* table packages, row id = index
    dbdeps,      \* table deps
    mpc,         \* makedb: position in the script
    mi,          \* makedb: index of the next manifest of a for loop
    todo,        \* makedb: files of the glob not yet visited
    runs,        \* number of makedb runs started
    committed,   \* packagesite.db as of the last commit
    fetched,     \* the repopaths download() was called with
    nfetch,      \* the number of calls of download()
    startdisk,   \* disk when the current makedb run started
    samedisk,    \* the previous run started from this disk too
    prevcat,     \* what the previous makedb run started from and left
    reconrows,   \* rows the reconciliation loop inserted in this run
    cmd,         \* repotool: the command running
    arg,         \* repotool: pkgname
    rpc,         \* repotool: position in the command
    pkgid,       \* deps: pkgid
    alldeps,     \* deps: alldeps
    newdeps,     \* deps: newdeps
    rv,          \* deps: the returned list
    rounds,      \* deps: iterations of the while loop so far
    out,         \* repotool: what the command reported
    queue,       \* get: repopaths still to visit
    globbed,     \* upgrade: files of the glob not yet visited
    pcmd,        \* processes: the command line each was started with
    ppc,         \* processes: position of each
    rowshape     \* processes: the shape of a row of ps --libxo=json

mvars == <<feed, packages, dbpackages, dbdeps, mpc, mi, todo, committed>>
hvars == <<runs, startdisk, samedisk, prevcat, reconrows>>
rvars == <<cmd, arg, rpc, out, queue, globbed>>
dvars == <<pkgid, alldeps, newdeps, rv, rounds>>
fvars == <<fetched, nfetch>>
pvars == <<pcmd, ppc, rowshape>>
svars == <<mvars, hvars, rvars, dvars, disk, fvars>>
vars == <<svars, pvars>>

\* ------------------------------------------------------------- helpers
Min(S) == CHOOSE x \in S : \A y \in S : x <= y
Max(S) == CHOOSE x \in S : \A y \in S : x >= y
Range(s) == {s[i] : i \in DOMAIN s}
\* The enumerations of a finite set, each element once.
Orders(S) ==
    {s \in [1..Cardinality(S) -> S] : \A i, j \in 1..Cardinality(S) : s[i] = s[j] => i = j}

\* glob.glob(PKGDIR + "*.pkg")
Glob(d) == {f \in Files : d[f].here}
\* os.path.exists
Exists(d, f) == f \in Files /\ d[f].here

\* ------------------------------------------------------------ the catalog
\* insert_pkg: the row of a manifest; cur.lastrowid is the new length.
Row(m) ==
    [name |-> m.name, version |-> m.version, sum |-> m.sum,
     pkgsize |-> m.pkgsize, repopath |-> m.repopath]
insert_pkg(rows, m) == Append(rows, Row(m))

\* SELECT rowid ... WHERE name == ? ... fetchone(): the first row in rowid
\* order, None when there is none.
RowsNamed(rows, n) == {i \in DOMAIN rows : rows[i].name = n}
FetchOneByName(rows, n) ==
    IF RowsNamed(rows, n) = {} THEN None ELSE Min(RowsNamed(rows, n))

\* idbyname = dict(SELECT name, rowid FROM packages): a later row replaces an
\* earlier one of the same name.
HasName(rows, n) == RowsNamed(rows, n) # {}
idbyname(rows, n) == Max(RowsNamed(rows, n))
\* idbyname.get(depname, -1)
DepId(rows, n) == IF HasName(rows, n) THEN idbyname(rows, n) ELSE Unresolved

\* Edges resolved while the packages are inserted: a dependency is looked up
\* among the rows up to its owner only.
EdgesOfEager(rows, m) ==
    {[pkgid |-> idbyname(rows, m.name), name |-> dn,
      depid |-> DepId(SubSeq(rows, 1, idbyname(rows, m.name)), dn)] : dn \in m.deps}

\* The rows INSERT INTO deps adds for one manifest.
EdgesOf(rows, m) ==
    {[pkgid |-> idbyname(rows, m.name), name |-> dn, depid |-> DepId(rows, dn)] :
        dn \in m.deps}

\* A comparison that leaves the checksum out.
DriftedNoSum(row, f, a) ==
    \/ row.version # FileVer(f)
    \/ row.pkgsize # a.size

\* A comparison that finds every artifact changed.
DriftedAlways(row, f, a) == TRUE

\* The reasons of the reconciliation loop: version, checksum, size.
Drifted(row, f, a) ==
    \/ row.version # FileVer(f)
    \/ row.sum # a.sum
    \/ row.pkgsize # a.size

\* What curl can leave at a repopath: nothing (the transfer failed), the
\* published artifact, a rebuilt artifact of the same length, or other bytes
\* (curl -O without --fail stores whatever the server answered).
DownloadResults(f) ==
    {NoFile,
     Artifact(1, 1, Embedded(f, {})),
     Artifact(2, 1, Embedded(f, {})),
     Artifact(2, 2, NoManifest)}

\* ------------------------------------------------------------------ makedb
NoOutput == [kind |-> "", names |-> {}]
IdleRepotool ==
    /\ cmd = "" /\ arg = "" /\ rpc = "idle" /\ out = NoOutput
    /\ queue = <<>> /\ globbed = {}
    /\ pkgid = None /\ alldeps = <<>> /\ newdeps = <<>> /\ rv = <<>> /\ rounds = 0

\* What a finished run leaves for the next one to be compared with.
Catalog == [packages |-> dbpackages, deps |-> dbdeps, reconrows |-> reconrows]

\* A rebuild that keeps the rows of the old database.
KeptPackages == dbpackages

\* Lines 143-166: the old database is removed and the tables are created.
FreshPackages == <<>>

\* The database file: absent, or the tables as of the last db.commit().
NoDb == [exists |-> FALSE, packages |-> <<>>, deps |-> {}]
Db(rows, edges) == [exists |-> TRUE, packages |-> rows, deps |-> edges]

\* Lines 133-166: read the feed, remove the old database, create the tables.
MakedbStart ==
    /\ mpc \in {"start", "done"}
    /\ rpc = "idle"
    /\ runs < MaxRuns
    /\ runs' = runs + 1
    /\ packages' = feed
    /\ dbpackages' = FreshPackages
    /\ dbdeps' = {}
    /\ committed' = Db(FreshPackages, {})
    /\ mi' = 1
    /\ mpc' = "insert"
    /\ startdisk' = disk
    /\ samedisk' = (runs > 0 /\ disk = startdisk)
    /\ prevcat' = Catalog
    /\ reconrows' = 0
    /\ fetched' = {} /\ nfetch' = 0
    /\ UNCHANGED <<pvars, feed, todo, disk, rvars, dvars>>

\* Lines 170-171: one iteration of the bulk insert.
InsertStep ==
    /\ mpc = "insert"
    /\ mi <= Len(packages)
    /\ dbpackages' = insert_pkg(dbpackages, packages[mi])
    /\ mi' = mi + 1
    /\ UNCHANGED <<pvars, committed, feed, packages, dbdeps, mpc, todo, runs, startdisk, samedisk, prevcat,
                   reconrows, disk, fvars, rvars, dvars>>

\* Lines 172-178: commit, then glob the artifacts.
InsertCommit ==
    /\ mpc = "insert"
    /\ mi > Len(packages)
    /\ mpc' = "recon"
    /\ committed' = Db(dbpackages, dbdeps)
    /\ todo' = Glob(disk)
    /\ UNCHANGED <<pvars, feed, packages, dbpackages, dbdeps, mi, runs, startdisk, samedisk,
                   prevcat, reconrows, disk, fvars, rvars, dvars>>

\* Lines 192-201, 205: an artifact whose name has no row is inserted from its
\* own manifest, completed with sum, repopath, path and pkgsize.  insert_pkg
\* raises KeyError on a manifest that lacks a member it reads; the handler of
\* line 202 is for ValueError only.
ReconAdd(f) ==
    /\ mpc = "recon"
    /\ f \in todo
    /\ FetchOneByName(dbpackages, FileName(f)) = None
    /\ disk[f].man.ok
    /\ LET man == disk[f].man
           manifest == [name |-> man.name, version |-> man.version,
                        sum |-> disk[f].sum, pkgsize |-> disk[f].size,
                        repopath |-> f, deps |-> man.deps]
       IN IF man.complete
          THEN /\ dbpackages' = insert_pkg(dbpackages, manifest)
               /\ packages' = Append(packages, manifest)
               /\ reconrows' = reconrows + 1
               /\ mpc' = mpc
          ELSE /\ mpc' = "crashed"
               /\ UNCHANGED <<dbpackages, packages, reconrows>>
    /\ todo' = todo \ {f}
    /\ UNCHANGED <<pvars, committed, feed, dbdeps, mi, runs, startdisk, samedisk, prevcat, disk,
                   fvars, rvars, dvars>>

\* Lines 202-203: the manifest cannot be extracted; the artifact is skipped.
ReconSkip(f) ==
    /\ mpc = "recon"
    /\ f \in todo
    /\ FetchOneByName(dbpackages, FileName(f)) = None
    /\ ~disk[f].man.ok
    /\ todo' = todo \ {f}
    /\ UNCHANGED <<pvars, committed, feed, packages, dbpackages, dbdeps, mpc, mi, runs, startdisk, samedisk,
                   prevcat, reconrows, disk, fvars, rvars, dvars>>

\* Lines 207-214 with an empty reason list.
ReconUnchanged(f) ==
    /\ mpc = "recon"
    /\ f \in todo
    /\ FetchOneByName(dbpackages, FileName(f)) # None
    /\ ~Drifted(dbpackages[FetchOneByName(dbpackages, FileName(f))], f, disk[f])
    /\ todo' = todo \ {f}
    /\ UNCHANGED <<pvars, committed, feed, packages, dbpackages, dbdeps, mpc, mi, runs, startdisk, samedisk,
                   prevcat, reconrows, disk, fvars, rvars, dvars>>

\* Lines 214-219: os.remove(completename); download(repopath), whose
\* os.chmod raises FileNotFoundError when curl left no file.
ReconUpdate(f) ==
    /\ mpc = "recon"
    /\ f \in todo
    /\ FetchOneByName(dbpackages, FileName(f)) # None
    /\ Drifted(dbpackages[FetchOneByName(dbpackages, FileName(f))], f, disk[f])
    /\ fetched' = fetched \cup {f} /\ nfetch' = nfetch + 1
    /\ todo' = todo \ {f}
    /\ \E got \in DownloadResults(f) :
        /\ disk' = [disk EXCEPT ![f] = got]
        /\ mpc' = IF got.here THEN mpc ELSE "crashed"
    /\ UNCHANGED <<pvars, committed, feed, packages, dbpackages, dbdeps, mi, runs, startdisk, samedisk,
                   prevcat, reconrows, rvars, dvars>>

\* Lines 220-224: commit; idbyname is read from the finished packages table.
ReconCommit ==
    /\ mpc = "recon"
    /\ todo = {}
    /\ mpc' = "deps"
    /\ committed' = Db(dbpackages, dbdeps)
    /\ mi' = 1
    /\ UNCHANGED <<pvars, feed, packages, dbpackages, dbdeps, todo, runs, startdisk, samedisk,
                   prevcat, reconrows, disk, fvars, rvars, dvars>>

\* Lines 225-233: the deps rows of one manifest.
ResolveStep ==
    /\ mpc = "deps"
    /\ mi <= Len(packages)
    /\ dbdeps' = dbdeps \cup EdgesOf(dbpackages, packages[mi])
    /\ mi' = mi + 1
    /\ UNCHANGED <<pvars, committed, feed, packages, dbpackages, mpc, todo, runs, startdisk, samedisk,
                   prevcat, reconrows, disk, fvars, rvars, dvars>>

\* Lines 234-236: commit and close.
MakedbDone ==
    /\ mpc = "deps"
    /\ mi > Len(packages)
    /\ mpc' = "done"
    /\ committed' = Db(dbpackages, dbdeps)
    /\ UNCHANGED <<pvars, feed, packages, dbpackages, dbdeps, mi, todo, runs, startdisk, samedisk,
                   prevcat, reconrows, disk, fvars, rvars, dvars>>

\* The run ends on the uncaught exception of line 128 or line 200: the
\* connection is dropped
\* without db.commit(), and what was written since the last commit is gone.
MakedbExit ==
    /\ mpc = "crashed"
    /\ mpc' = "aborted"
    /\ dbpackages' = committed.packages
    /\ dbdeps' = committed.deps
    /\ UNCHANGED <<pvars, committed, feed, packages, mi, todo, hvars, disk,
                   fvars, rvars, dvars>>

\* ---------------------------------------------------------------- repotool
\* runs, startdisk, samedisk, prevcat and reconrows record the makedb runs
\* for the properties of makedb; a repotool command starts with that record
\* cleared.
NoHistory ==
    /\ runs' = 0
    /\ startdisk' = disk
    /\ samedisk' = FALSE
    /\ prevcat' = [packages |-> <<>>, deps |-> {}, reconrows |-> 0]
    /\ reconrows' = 0
    /\ nfetch' = 0
    /\ fetched' = {}

\* A loop that stops as soon as a round returns as many ids as are known.
LoopTestStrict(nd, ad) == Len(nd) > Len(ad)

\* deps, line 485: the test of the while loop.
LoopTest(nd, ad) == Len(nd) >= Len(ad)

\* deps, line 486: alldeps += [j for j in newdeps if j not in alldeps]
Extend(ad, nd) == ad \o SelectSeq(nd, LAMBDA j : j \notin Range(ad))

\* A query that leaves the unresolved edges out.
SelectResolvedDepIds(edges, ids) ==
    {e.depid : e \in {x \in edges : x.pkgid \in ids /\ x.depid # Unresolved}}

\* deps, lines 487-492: SELECT DISTINCT depid FROM deps WHERE pkgid IN (...)
SelectDepIds(edges, ids) == {e.depid : e \in {x \in edges : x.pkgid \in ids}}

\* deps, lines 493-494: rv = [pkgid]; rv += [j for j in alldeps if j not in rv]
Result(id, ad) == <<id>> \o SelectSeq(ad, LAMBDA j : j # id)

\* deps, lines 481-484, entered by a command for name n.
DepsEnter(n) ==
    /\ pkgid' = FetchOneByName(dbpackages, n)
    /\ alldeps' = <<>>
    /\ newdeps' = <<FetchOneByName(dbpackages, n)>>
    /\ rv' = <<>>
    /\ rounds' = 0

\* The orders in which the query can return the ids S.  SQL leaves the order
\* open.  Only the order of the ids that are not yet in ad reaches alldeps
\* (line 486 drops the others, line 485 reads the length only), so the ids
\* already in ad are listed first, in the order of ad.
QueryOrders(S, ad) ==
    {SelectSeq(ad, LAMBDA j : j \in S) \o new : new \in Orders(S \ Range(ad))}

\* deps, lines 485-492: one iteration.  str(j[0]) of a None row raises
\* TypeError.
DepsLoop ==
    /\ rpc = "deps"
    /\ LoopTest(newdeps, alldeps)
    /\ rounds < MaxRounds
    /\ rounds' = rounds + 1
    /\ alldeps' = Extend(alldeps, newdeps)
    /\ IF None \in Range(Extend(alldeps, newdeps))
       THEN rpc' = "raised" /\ newdeps' = newdeps
       ELSE /\ rpc' = rpc
            /\ newdeps' \in QueryOrders(
                   SelectDepIds(dbdeps, Range(Extend(alldeps, newdeps))),
                   Extend(alldeps, newdeps))
    /\ UNCHANGED <<pvars, mvars, hvars, cmd, arg, out, queue, globbed, pkgid, rv, disk, fvars>>

\* deps, lines 493-495: the loop test fails and the list is returned.
DepsReturn ==
    /\ rpc = "deps"
    /\ ~LoopTest(newdeps, alldeps)
    /\ rv' = Result(pkgid, alldeps)
    /\ rpc' = "returned"
    /\ UNCHANGED <<pvars, mvars, hvars, cmd, arg, out, queue, globbed, pkgid, alldeps, newdeps,
                   rounds, disk, fvars>>

\* cmd_get, lines 218-219.
GetStart(n) ==
    /\ mpc = "done"
    /\ rpc = "idle"
    /\ cmd' = "get" /\ arg' = n
    /\ DepsEnter(n)
    /\ rpc' = "deps"
    /\ NoHistory
    /\ UNCHANGED <<pvars, mvars, out, queue, globbed, disk>>

\* cmd_get has no handler for the TypeError of deps.
GetRaised ==
    /\ cmd = "get"
    /\ rpc = "raised"
    /\ rpc' = "crashed"
    /\ UNCHANGED <<pvars, mvars, hvars, cmd, arg, out, queue, globbed, dvars, disk, fvars>>

\* SELECT repopath FROM packages WHERE rowid IS ?, for each id of a list.
RepoPaths(rows, ids) == [i \in DOMAIN ids |-> rows[ids[i]].repopath]

\* cmd_get, lines 220-224: the repopaths of the ids that are not (-1,).
GetCollect ==
    /\ cmd = "get"
    /\ rpc = "returned"
    /\ queue' = RepoPaths(dbpackages, SelectSeq(rv, LAMBDA d : d # Unresolved))
    /\ rpc' = "fetch"
    /\ UNCHANGED <<pvars, mvars, hvars, cmd, arg, out, globbed, dvars, disk, fvars>>

\* cmd_get, lines 225-230: one iteration; download's os.chmod raises when
\* curl left no file.
GetFetch ==
    /\ cmd = "get"
    /\ rpc = "fetch"
    /\ queue # <<>>
    /\ queue' = Tail(queue)
    /\ IF Exists(disk, Head(queue))
       THEN UNCHANGED <<disk, fvars, rpc>>
       ELSE /\ fetched' = fetched \cup {Head(queue)} /\ nfetch' = nfetch + 1
            /\ \E got \in DownloadResults(Head(queue)) :
                /\ disk' = [disk EXCEPT ![Head(queue)] = got]
                /\ rpc' = IF got.here THEN rpc ELSE "crashed"
    /\ UNCHANGED <<pvars, mvars, hvars, cmd, arg, out, globbed, dvars>>

\* cmd_get, lines 231-232.
GetDone ==
    /\ cmd = "get"
    /\ rpc = "fetch"
    /\ queue = <<>>
    /\ rpc' = "done"
    /\ UNCHANGED <<pvars, mvars, hvars, cmd, arg, out, queue, globbed, dvars, disk, fvars>>

\* cmd_show, lines 179-192: the row of the name; a name without a row makes
\* the unpacking of fetchone() raise TypeError, which line 203 reports.
ShowStart(n) ==
    /\ mpc = "done"
    /\ rpc = "idle"
    /\ cmd' = "show" /\ arg' = n
    /\ NoHistory
    /\ IF FetchOneByName(dbpackages, n) = None
       THEN /\ out' = [kind |-> "doesnotexist", names |-> {}]
            /\ rpc' = "done"
            /\ UNCHANGED dvars
       ELSE /\ out' = out
            /\ DepsEnter(n)
            /\ rpc' = "deps"
    /\ UNCHANGED <<pvars, mvars, queue, globbed, disk>>

\* cmd_show, lines 193-196: fetchone() for every id of the list, None for an
\* id without a row.  Lines 197-202 print a line for each element until
\* rp[0] of a None raises TypeError: the elements before the first None.
Listed(ids) ==
    IF \E i \in DOMAIN ids : ids[i] \notin DOMAIN dbpackages
    THEN SubSeq(ids, 1, Min({i \in DOMAIN ids : ids[i] \notin DOMAIN dbpackages}) - 1)
    ELSE ids

\* cmd_show, lines 193-206.
ShowList ==
    /\ cmd = "show"
    /\ rpc = "returned"
    /\ out' = [kind |-> IF Listed(rv) = rv THEN "shown" ELSE "doesnotexist",
               names |-> Range(RepoPaths(dbpackages, Listed(rv)))]
    /\ rpc' = "done"
    /\ UNCHANGED <<pvars, mvars, hvars, cmd, arg, queue, globbed, dvars, disk, fvars>>

\* cmd_refresh, lines 302-305: the names of the artifacts on disk.
RefreshStart ==
    /\ mpc = "done"
    /\ rpc = "idle"
    /\ cmd' = "refresh" /\ arg' = ""
    /\ NoHistory
    /\ globbed' = Glob(disk)
    /\ rpc' = "refresh"
    /\ UNCHANGED <<pvars, mvars, out, queue, dvars, disk>>

\* cmd_refresh, lines 306-309: the next name, and its call of deps.
RefreshNext(f) ==
    /\ cmd = "refresh"
    /\ rpc = "refresh"
    /\ f \in globbed
    /\ globbed' = globbed \ {f}
    /\ arg' = FileName(f)
    /\ DepsEnter(FileName(f))
    /\ rpc' = "deps"
    /\ UNCHANGED <<pvars, mvars, hvars, cmd, out, queue, disk, fvars>>

\* cmd_refresh, lines 310-312: the TypeError of deps is caught and the name
\* skipped.
RefreshRaised ==
    /\ cmd = "refresh"
    /\ rpc = "raised"
    /\ rpc' = "refresh"
    /\ UNCHANGED <<pvars, mvars, hvars, cmd, arg, out, queue, globbed, dvars, disk, fvars>>

\* cmd_refresh, lines 313-317: the repopaths of the ids that are not (-1,).
RefreshCollect ==
    /\ cmd = "refresh"
    /\ rpc = "returned"
    /\ queue' = RepoPaths(dbpackages, SelectSeq(rv, LAMBDA d : d # Unresolved))
    /\ rpc' = "fetch"
    /\ UNCHANGED <<pvars, mvars, hvars, cmd, arg, out, globbed, dvars, disk, fvars>>

\* cmd_refresh, lines 318-321: one iteration; after the last one the loop
\* over the names goes on.
RefreshFetch ==
    /\ cmd = "refresh"
    /\ rpc = "fetch"
    /\ IF queue = <<>>
       THEN /\ rpc' = "refresh"
            /\ UNCHANGED <<queue, disk, fvars>>
       ELSE /\ queue' = Tail(queue)
            /\ IF Exists(disk, Head(queue))
               THEN UNCHANGED <<disk, fvars, rpc>>
               ELSE /\ fetched' = fetched \cup {Head(queue)} /\ nfetch' = nfetch + 1
                    /\ \E got \in DownloadResults(Head(queue)) :
                        /\ disk' = [disk EXCEPT ![Head(queue)] = got]
                        /\ rpc' = IF got.here THEN rpc ELSE "crashed"
    /\ UNCHANGED <<pvars, mvars, hvars, cmd, arg, out, globbed, dvars>>

\* cmd_refresh, lines 324-325.
RefreshDone ==
    /\ cmd = "refresh"
    /\ rpc = "refresh"
    /\ globbed = {}
    /\ rpc' = "done"
    /\ UNCHANGED <<pvars, mvars, hvars, cmd, arg, out, queue, globbed, dvars, disk, fvars>>

\* cmd_delete, lines 265-269: the rows that own an edge to rowid.
Dependers(edges, rowid) == {e.pkgid : e \in {x \in edges : x.depid = rowid}}
\* A check that counts the dependers whose artifact is absent too.
AllDependers(rows, edges, d, rowid) == Dependers(edges, rowid)

\* cmd_delete, lines 271-275: those whose artifact exists.
ExistingDependers(rows, edges, d, rowid) ==
    {i \in Dependers(edges, rowid) : Exists(d, rows[i].repopath)}

\* cmd_delete, lines 251-286: the checks, the report, and the call of deps.
DeleteStart(n) ==
    /\ mpc = "done"
    /\ rpc = "idle"
    /\ cmd' = "delete" /\ arg' = n
    /\ NoHistory
    /\ LET rowid == FetchOneByName(dbpackages, n) IN
       IF rowid = None
       THEN /\ out' = [kind |-> "notindb", names |-> {}]
            /\ rpc' = "done"
            /\ UNCHANGED dvars
       ELSE IF ~Exists(disk, dbpackages[rowid].repopath)
       THEN /\ out' = [kind |-> "notinrepo", names |-> {}]
            /\ rpc' = "done"
            /\ UNCHANGED dvars
       ELSE IF ExistingDependers(dbpackages, dbdeps, disk, rowid) # {}
       THEN /\ out' = [kind |-> "refused",
                       names |-> {dbpackages[i].name :
                           i \in ExistingDependers(dbpackages, dbdeps, disk, rowid)}]
            /\ rpc' = "done"
            /\ UNCHANGED dvars
       ELSE /\ out' = [kind |-> "deletable", names |-> {}]
            /\ DepsEnter(n)
            /\ rpc' = "deps"
    /\ UNCHANGED <<pvars, mvars, queue, globbed, disk>>

\* cmd_delete, lines 287-291.
DeleteDone ==
    /\ cmd = "delete"
    /\ rpc = "returned"
    /\ rpc' = "done"
    /\ UNCHANGED <<pvars, mvars, hvars, cmd, arg, out, queue, globbed, dvars, disk, fvars>>

\* cmd_leaves, line 336: dict(SELECT repopath, rowid FROM packages).get(n)
pkgdict(rows, rp) ==
    IF {i \in DOMAIN rows : rows[i].repopath = rp} = {}
    THEN None
    ELSE Max({i \in DOMAIN rows : rows[i].repopath = rp})
\* cmd_leaves, lines 337-338.
presentpkgs(rows, d) == {pkgdict(rows, f) : f \in Glob(d)}
\* cmd_leaves, lines 340-348, on the set left by remove((None,)).
LeafIds(edges, present) ==
    {p \in present : Dependers(edges, p) \cap present = {}}

\* cmd_leaves: presentpkgs.remove((None,)) raises KeyError when every
\* artifact has a row; otherwise the leaves are printed.
Leaves ==
    /\ mpc = "done"
    /\ rpc = "idle"
    /\ cmd' = "leaves" /\ arg' = ""
    /\ NoHistory
    /\ IF None \notin presentpkgs(dbpackages, disk)
       THEN /\ rpc' = "crashed"
            /\ out' = out
       ELSE /\ rpc' = "done"
            /\ out' = [kind |-> "leaves",
                       names |-> {dbpackages[p].repopath :
                           p \in LeafIds(dbdeps, presentpkgs(dbpackages, disk) \ {None})}]
    /\ UNCHANGED <<pvars, mvars, queue, globbed, dvars, disk>>

\* cmd_upgrade, line 369.
UpgradeStart ==
    /\ mpc = "done"
    /\ rpc = "idle"
    /\ cmd' = "upgrade" /\ arg' = ""
    /\ NoHistory
    /\ globbed' = Glob(disk)
    /\ rpc' = "upgrade"
    /\ UNCHANGED <<pvars, mvars, out, queue, dvars, disk>>

\* cmd_upgrade, line 379: version or size.
NeedsUpgrade(row, f, a) == row.version # FileVer(f) \/ row.pkgsize # a.size

\* cmd_upgrade, lines 376-378: no row of that name.
UpgradeSkip(f) ==
    /\ rpc = "upgrade"
    /\ f \in globbed
    /\ FetchOneByName(dbpackages, FileName(f)) = None
    /\ globbed' = globbed \ {f}
    /\ UNCHANGED <<pvars, mvars, hvars, cmd, arg, rpc, out, queue, dvars, disk, fvars>>

\* cmd_upgrade, line 379 false.
UpgradeKeep(f) ==
    /\ rpc = "upgrade"
    /\ f \in globbed
    /\ FetchOneByName(dbpackages, FileName(f)) # None
    /\ ~NeedsUpgrade(dbpackages[FetchOneByName(dbpackages, FileName(f))], f, disk[f])
    /\ globbed' = globbed \ {f}
    /\ UNCHANGED <<pvars, mvars, hvars, cmd, arg, rpc, out, queue, dvars, disk, fvars>>

\* cmd_upgrade, lines 379-382: os.remove(pkgname); download(repopath).
UpgradeFetch(f) ==
    /\ rpc = "upgrade"
    /\ f \in globbed
    /\ FetchOneByName(dbpackages, FileName(f)) # None
    /\ NeedsUpgrade(dbpackages[FetchOneByName(dbpackages, FileName(f))], f, disk[f])
    /\ LET rp == dbpackages[FetchOneByName(dbpackages, FileName(f))].repopath
           removed == [disk EXCEPT ![f] = NoFile]
       IN /\ fetched' = fetched \cup {rp} /\ nfetch' = nfetch + 1
          /\ \E got \in DownloadResults(rp) :
              /\ disk' = IF got.here THEN [removed EXCEPT ![rp] = got] ELSE removed
              /\ rpc' = IF disk'[rp].here THEN rpc ELSE "crashed"
    /\ globbed' = globbed \ {f}
    /\ UNCHANGED <<pvars, mvars, hvars, cmd, arg, out, queue, dvars>>

\* cmd_upgrade, lines 383-384.
UpgradeDone ==
    /\ rpc = "upgrade"
    /\ globbed = {}
    /\ rpc' = "done"
    /\ UNCHANGED <<pvars, mvars, hvars, cmd, arg, out, queue, globbed, dvars, disk, fvars>>

\* --------------------------------------------------------------- processes
\* Two processes started against the same repository.  A command line is the
\* list of its words; a word is in the line (Python's `in` on the command
\* string) when it is part of one of the line's words.
Pids == {"p1", "p2"}
NoLine == <<>>
\* repotool.py, lines 27-40: cmds.
cmds ==
    {"list", "show", "contains", "get", "delete", "info", "leaves", "upgrade",
     "show-upgrade", "refresh", "unused", "check"}
Lines == {<<"makedb">>} \cup {<<"repotool", c>> : c \in cmds}
PartOf(w, x) == w = x \/ (w = "upgrade" /\ x = "show-upgrade")
Contains(w, line) == \E i \in DOMAIN line : PartOf(w, line[i])

\* The processes ps lists: those started and not yet ended.
Alive == {p \in Pids : ppc[p] \in {"started", "running"}}
\* One element of ["process-information"]["process"].
PsRow(p) ==
    [pid |-> p, terminal_name |-> "0", state |-> "S", cpu_time |-> "0:00",
     command |-> pcmd[p]]
\* Line 528: for pid, terminal_name, state, cpu_time, command in procs.
\* Unpacking a list binds its five values; unpacking a JSON object binds the
\* names of its five members.
Shapes == {"array", "object"}
Unpack(shape, row) ==
    IF shape = "array" THEN row
    ELSE [pid |-> "pid", terminal_name |-> "terminal-name", state |-> "state",
          cpu_time |-> "cpu-time", command |-> <<"command">>]

\* Lines 529-533 for one row.
Important(ourpid, r) ==
    /\ r.pid # ourpid
    /\ Contains("repotool", r.command)
    /\ \E j \in {"upgrade", "refresh", "delete"} : Contains(j, r.command)
\* check_running reaches sys.exit(3).
Detected(ourpid) ==
    \E q \in Alive : Important(ourpid, Unpack(rowshape, PsRow(q)))

NoProcesses ==
    /\ pcmd = [p \in Pids |-> NoLine]
    /\ ppc = [p \in Pids |-> "none"]
    /\ rowshape = "array"

\* A process is started with a command line.
Launch(p, line) ==
    /\ ppc[p] = "none"
    /\ pcmd' = [pcmd EXCEPT ![p] = line]
    /\ ppc' = [ppc EXCEPT ![p] = "started"]
    /\ UNCHANGED <<svars, rowshape>>

\* makedb.py, lines 132-145: the feed is read and the old database removed;
\* no other process is looked for.
MakedbBegin(p) ==
    /\ ppc[p] = "started"
    /\ pcmd[p][1] = "makedb"
    /\ ppc' = [ppc EXCEPT ![p] = "running"]
    /\ UNCHANGED <<svars, pcmd, rowshape>>

\* repotool.py main, lines 75-83: check_running() is called for every
\* command, before the database is opened and the command dispatched.
CheckRunning(p) ==
    /\ ppc[p] = "started"
    /\ pcmd[p][1] = "repotool"
    /\ ppc' = [ppc EXCEPT ![p] = IF Detected(p) THEN "exit3" ELSE "running"]
    /\ UNCHANGED <<svars, pcmd, rowshape>>

\* The command, or the build, ends.
Finish(p) ==
    /\ ppc[p] = "running"
    /\ ppc' = [ppc EXCEPT ![p] = "done"]
    /\ UNCHANGED <<svars, pcmd, rowshape>>

\* ------------------------------------------------------------ the inputs
\* The published artifact of package n.
Good(n) == Artifact(1, 1, Embedded(File(n, 1), {}))

\* Feeds of three packages with every dependency graph of at most MaxDeps
\* edges per package, over a mirror that holds a and b and lacks c.
GraphFeeds ==
    {<<Published("a", da), Published("b", db), Published("c", dc)>> :
        da \in DepSets, db \in DepSets, dc \in DepSets}
GraphDisks ==
    {[f \in Files |->
        IF FileVer(f) = 1 /\ FileName(f) \in {"a", "b"} THEN Good(FileName(f)) ELSE NoFile]}

\* Short feeds (a name may occur twice) over mirrors whose artifacts differ
\* from the feed in version, checksum or size, or are unknown to the feed.
SmallDeps == {{}, {"b"}, {"c"}}
ReconFeeds ==
    {<<Published("a", da)>> : da \in SmallDeps}
    \cup {<<Published("a", da), Published(n, db)>> :
             da \in SmallDeps, db \in SmallDeps, n \in {"a", "b"}}
ReconDisks ==
    {[f \in Files |->
        IF f = File("a", 1) THEN a1
        ELSE IF f = File("a", 2) /\ ~a1.here THEN a2
        ELSE IF f = File("b", 1) THEN b1
        ELSE IF f = File("c", 1) THEN c1
        ELSE NoFile] :
      a1 \in {NoFile, Good("a"),
              Artifact(2, 1, Embedded(File("a", 1), {})),
              Artifact(1, 2, Embedded(File("a", 1), {}))},
      a2 \in {NoFile, Artifact(1, 1, Embedded(File("a", 2), {}))},
      b1 \in {NoFile, Good("b")},
      c1 \in {NoFile,
              Artifact(1, 1, Embedded(File("c", 1), {"a"})),
              Artifact(1, 1, Incomplete(File("c", 1))),
              Artifact(1, 1, NoManifest)}}

\* Nothing has run yet.
Unstarted ==
    /\ packages = <<>>
    /\ dbpackages = <<>>
    /\ dbdeps = {}
    /\ mpc = "start"
    /\ mi = 1
    /\ todo = {}
    /\ runs = 0
    /\ committed = NoDb
    /\ fetched = {} /\ nfetch = 0
    /\ startdisk = disk
    /\ samedisk = FALSE
    /\ prevcat = [packages |-> <<>>, deps |-> {}, reconrows |-> 0]
    /\ reconrows = 0
    /\ IdleRepotool

Init ==
    /\ \/ feed \in GraphFeeds /\ disk \in GraphDisks
       \/ feed \in ReconFeeds /\ disk \in ReconDisks
    /\ Unstarted
    /\ NoProcesses

\* pkgname of a command line: a package name, or one no package has.
ArgNames == PkgNames \cup {"z"}

Next ==
    \/ MakedbStart
    \/ InsertStep
    \/ InsertCommit
    \/ \E f \in Files : ReconAdd(f)
    \/ \E f \in Files : ReconSkip(f)
    \/ \E f \in Files : ReconUnchanged(f)
    \/ \E f \in Files : ReconUpdate(f)
    \/ ReconCommit
    \/ ResolveStep
    \/ MakedbDone
    \/ MakedbExit
    \/ \E n \in ArgNames : GetStart(n)
    \/ GetRaised
    \/ GetCollect
    \/ GetFetch
    \/ GetDone
    \/ \E n \in ArgNames : ShowStart(n)
    \/ ShowList
    \/ RefreshStart
    \/ \E f \in Files : RefreshNext(f)
    \/ RefreshRaised
    \/ RefreshCollect
    \/ RefreshFetch
    \/ RefreshDone
    \/ \E n \in ArgNames : DeleteStart(n)
    \/ DeleteDone
    \/ DepsLoop
    \/ DepsReturn
    \/ Leaves
    \/ UpgradeStart
    \/ \E f \in Files : UpgradeSkip(f)
    \/ \E f \in Files : UpgradeKeep(f)
    \/ \E f \in Files : UpgradeFetch(f)
    \/ UpgradeDone

Spec == Init /\ [][Next]_vars

InitProc ==
    /\ feed = <<>>
    /\ disk = [f \in Files |-> NoFile]
    /\ Unstarted
    /\ pcmd = [p \in Pids |-> NoLine]
    /\ ppc = [p \in Pids |-> "none"]
    /\ rowshape \in Shapes

NextProc ==
    \/ \E p \in Pids : \E line \in Lines : Launch(p, line)
    \/ \E p \in Pids : MakedbBegin(p)
    \/ \E p \in Pids : CheckRunning(p)
    \/ \E p \in Pids : Finish(p)

SpecProc == InitProc /\ [][NextProc]_vars

\* ============================================================ properties
\* The dependency graph of the catalog, read from the deps table alone.
Succ(S) == {e.depid : e \in {x \in dbdeps : x.pkgid \in S}}
\* All ids of the catalog: the row ids and the unresolved id.
Ids == DOMAIN dbpackages \cup {Unresolved}
\* The ids at most k edges away from the ids S.
RECURSIVE Within(_, _)
Within(S, k) == IF k = 0 THEN S ELSE LET W == Within(S, k - 1) IN W \cup Succ(W)
Reach(id) == Within({id}, Cardinality(Ids))
Dist(id, x) == Min({k \in 0..Cardinality(Ids) : x \in Within({id}, k)})
OnCycle(id) == id \in Within(Succ({id}), Cardinality(Ids))
Acyclic == \A id \in Ids : ~OnCycle(id)
NoRepeat(s) == \A i, j \in DOMAIN s : s[i] = s[j] => i = j
\* deps has returned (rv is empty until then).
Returned == rv # <<>>

\* C1: the closure computation terminates for every catalog and every name
\* in it: the loop reaches a fixed point.  Every round before the fixed point
\* adds an id, and a catalog of N rows has N + 1 ids, so a loop that reaches
\* its fixed point runs at most N + 2 rounds.
C1_ClosureTerminates == rpc = "deps" => rounds <= Len(dbpackages) + 2

\* C2: in an acyclic catalog the closure of a present name starts with the id
\* of that package, holds exactly the ids reachable from it, each once, an id
\* found in an earlier round before one found in a later round, and is the
\* package's own id alone when it has no edges.
C2_ClosureExact ==
    (Returned /\ pkgid # None /\ Acyclic) =>
        /\ rv[1] = pkgid
        /\ Range(rv) = Reach(pkgid)
        /\ NoRepeat(rv)
        /\ \A i, j \in DOMAIN rv : i < j => Dist(pkgid, rv[i]) <= Dist(pkgid, rv[j])
        /\ (Succ({pkgid}) = {} => rv = <<pkgid>>)

\* A closure of four ids, two of them found in the same round, one later.
C2_Witness ==
    /\ Returned /\ pkgid # None /\ Acyclic
    /\ Len(rv) = 4
    /\ Dist(pkgid, rv[2]) = 1 /\ Dist(pkgid, rv[3]) = 1 /\ Dist(pkgid, rv[4]) = 2

\* C3: the closure of a name that is not in the catalog is returned with the
\* unresolved id as element 0; deps does not raise and get does not fail on it.
C3_AbsentNameSentinel ==
    /\ rpc # "raised"
    /\ (Returned /\ ~HasName(dbpackages, arg)) => rv[1] = Unresolved

\* C4: with an unresolved edge in the closure, the closure is returned with
\* the unresolved id exactly once, the unresolved id owns no edge (nothing is
\* expanded from it), and every reachable id is in the result.
C4_DanglingKept ==
    (Returned /\ pkgid # None /\ Unresolved \in Reach(pkgid)) =>
        /\ Cardinality({i \in DOMAIN rv : rv[i] = Unresolved}) = 1
        /\ Succ({Unresolved}) = {}
        /\ Reach(pkgid) \subseteq Range(rv)
        /\ Range(rv) \subseteq Reach(pkgid)

\* A closure with the unresolved id and two resolved dependencies.
C4_Witness ==
    /\ Returned /\ pkgid # None
    /\ Unresolved \in Range(rv)
    /\ Len(rv) = 4

\* C5: in the catalog every edge names, as depid, a row whose name is the
\* edge's dependency name whenever such a row exists, and the unresolved id
\* only when none exists; edges exist only once every manifest has its row;
\* a finished build holds an edge for every dependency of every manifest.
EdgeResolved(e) ==
    IF \E i \in DOMAIN dbpackages : dbpackages[i].name = e.name
    THEN e.depid \in DOMAIN dbpackages /\ dbpackages[e.depid].name = e.name
    ELSE e.depid = Unresolved
C5_EdgesResolved ==
    /\ \A e \in dbdeps : EdgeResolved(e)
    /\ dbdeps # {} => (mpc \in {"deps", "done"} /\ Len(dbpackages) = Len(packages))
    /\ mpc = "done" =>
        \A i \in DOMAIN packages : \A dn \in packages[i].deps :
            \E e \in dbdeps : e.name = dn /\ dbpackages[e.pkgid].name = packages[i].name

\* A finished build with an edge to a package later in the feed and an edge
\* to a package ingested from the mirror.
C5_Witness ==
    /\ mpc = "done"
    /\ \E e \in dbdeps : e.depid > e.pkgid /\ e.depid <= Len(feed)
    /\ \E e \in dbdeps : e.depid > Len(feed)

\* C6: delete reports a package deletable only if no package whose artifact
\* is on disk owns an edge to it; it refuses exactly when there is one, and
\* the names it reports are the names of exactly those packages.
PresentDependents(id) ==
    {i \in DOMAIN dbpackages :
        /\ disk[dbpackages[i].repopath].here
        /\ \E e \in dbdeps : e.pkgid = i /\ e.depid = id}
C6_DeleteSafety ==
    cmd = "delete" =>
        LET id == FetchOneByName(dbpackages, arg) IN
        /\ out.kind = "deletable" =>
            id # None /\ disk[dbpackages[id].repopath].here /\ PresentDependents(id) = {}
        /\ (id # None /\ disk[dbpackages[id].repopath].here /\ PresentDependents(id) # {})
            => out.kind = "refused"
        /\ out.kind = "refused" =>
            out.names = {dbpackages[i].name : i \in PresentDependents(id)}

\* Deleting b is refused naming a alone, although a package whose artifact
\* is absent depends on b too.
C6_Witness ==
    /\ cmd = "delete" /\ arg = "b"
    /\ out = [kind |-> "refused", names |-> {"a"}]
    /\ \E e \in dbdeps :
        /\ e.depid = FetchOneByName(dbpackages, "b")
        /\ ~disk[dbpackages[e.pkgid].repopath].here

\* C7: leaves returns exactly the packages whose artifact is on disk and that
\* are not the target of an edge whose owner's artifact is on disk too.
PresentRows == {i \in DOMAIN dbpackages : disk[dbpackages[i].repopath].here}
ExpectedLeaves ==
    {dbpackages[i].repopath : i \in
        {p \in PresentRows : ~\E e \in dbdeps : e.depid = p /\ e.pkgid \in PresentRows}}
C7_LeavesExact ==
    cmd = "leaves" => (rpc = "done" /\ out.names = ExpectedLeaves)

\* A step of the reconciliation loop, or of upgrade, that visits artifact f.
ReconVisits(f) == mpc = "recon" /\ f \in todo /\ f \notin todo'
UpgradeVisits(f) == rpc = "upgrade" /\ f \in globbed /\ f \notin globbed'
RowOf(f) == dbpackages[FetchOneByName(dbpackages, FileName(f))]
Known(f) == \E i \in DOMAIN dbpackages : dbpackages[i].name = FileName(f)
VersionDiffers(f) == RowOf(f).version # FileVer(f)
SumDiffers(f) == RowOf(f).sum # disk[f].sum
SizeDiffers(f) == RowOf(f).pkgsize # disk[f].size
Fetches == nfetch' = nfetch + 1

\* C8 as stated: makedb's loop and upgrade re-fetch an artifact whose name is
\* in the catalog exactly when its version, its checksum or its size differs
\* from the row.
C8_HashDecides ==
    [][\A f \in Files :
        ((ReconVisits(f) \/ UpgradeVisits(f)) /\ Known(f)) =>
            (Fetches <=> (VersionDiffers(f) \/ SumDiffers(f) \/ SizeDiffers(f)))]_vars

\* C8 as amended: makedb's loop removes and re-fetches the artifact exactly
\* when version, checksum or size differs; upgrade removes the artifact and
\* fetches the row's repopath exactly when version or size differs, and does
\* not read the checksum.
C8_DriftPerOperation ==
    [][\A f \in Files :
        /\ (ReconVisits(f) /\ Known(f)) =>
            /\ Fetches <=> (VersionDiffers(f) \/ SumDiffers(f) \/ SizeDiffers(f))
            /\ Fetches => f \in fetched'
            /\ ~Fetches => disk' = disk
        /\ (UpgradeVisits(f) /\ Known(f)) =>
            /\ Fetches <=> (VersionDiffers(f) \/ SizeDiffers(f))
            /\ Fetches => RowOf(f).repopath \in fetched'
            /\ (Fetches /\ RowOf(f).repopath # f) => ~disk'[f].here
            /\ ~Fetches => disk' = disk]_vars

\* upgrade has passed, without a fetch, an artifact whose checksum differs
\* from its row while version and size agree.
C8_Witness ==
    /\ cmd = "upgrade" /\ rpc = "done" /\ nfetch = 0
    /\ \E f \in Files :
        /\ disk[f].here /\ Known(f)
        /\ SumDiffers(f) /\ ~VersionDiffers(f) /\ ~SizeDiffers(f)

\* C9 as stated: the reconciliation pass leaves every artifact as it is.
C9_DiskUntouched == [][mpc = "recon" => disk' = disk]_vars

\* C9 as amended: the pass changes no artifact except one it visits whose
\* version, checksum or size differs from its row, which it removes and
\* fetches again at the same path; package rows are only added, and no deps
\* row is written.
C9_OnlyDriftedReplaced ==
    [][mpc = "recon" =>
        /\ \A f \in Files :
            disk'[f] # disk[f] =>
                /\ f \in todo /\ f \in fetched' /\ Known(f)
                /\ VersionDiffers(f) \/ SumDiffers(f) \/ SizeDiffers(f)
        /\ Len(dbpackages') >= Len(dbpackages)
        /\ SubSeq(dbpackages', 1, Len(dbpackages)) = dbpackages
        /\ dbdeps' = dbdeps]_vars

\* The pass has replaced an artifact and left another one alone.
C9_Witness ==
    /\ mpc = "recon" /\ nfetch > 0
    /\ \E f \in Files : disk[f].here /\ disk[f] # startdisk[f]
    /\ \E f \in Files : disk[f].here /\ disk[f] = startdisk[f] /\ f \notin todo

\* C10 as stated: a second run over the same, unchanged artifacts inserts or
\* updates no row in its reconciliation pass.
C10_SecondRunWritesNothing ==
    (runs >= 2 /\ samedisk /\ disk = startdisk /\ rpc = "idle") => reconrows = 0

\* C10 as amended: the second run rebuilds the catalog from empty; its pass
\* inserts as many rows as the first run's pass did, and the finished catalog
\* has the same package rows and the same edges between package names.
NamedEdges(rows, edges) ==
    {[owner |-> rows[e.pkgid].name, name |-> e.name, resolved |-> e.depid # Unresolved] :
        e \in edges}
C10_SameCatalogAgain ==
    (runs >= 2 /\ mpc = "done" /\ samedisk /\ disk = startdisk /\ rpc = "idle") =>
        /\ reconrows = prevcat.reconrows
        /\ Len(dbpackages) = Len(prevcat.packages)
        /\ Range(dbpackages) = Range(prevcat.packages)
        /\ NamedEdges(dbpackages, dbdeps) = NamedEdges(prevcat.packages, prevcat.deps)

\* A second run over unchanged artifacts that has ingested an artifact again.
C10_Witness ==
    /\ runs >= 2 /\ mpc = "done" /\ samedisk /\ disk = startdisk /\ rpc = "idle"
    /\ reconrows >= 1

\* ------------------------------------------------------ properties of SpecProc
Mutating(line) ==
    line = <<"makedb">> \/ (line # NoLine /\ line[1] = "repotool" /\ line[2] \in {"refresh", "upgrade", "delete"})
ReadOnly(line) ==
    line # NoLine /\ line[1] = "repotool" /\ line[2] \in {"list", "show", "info", "contains"}

\* C11: two mutating commands (makedb, refresh, upgrade, delete) are never
\* both past their start-up at the same time: one that is started while
\* another is active ends before it writes.
C11_MutatingExclusive ==
    \A p, q \in Pids :
        (p # q /\ Mutating(pcmd[p]) /\ Mutating(pcmd[q])) =>
            ~(ppc[p] = "running" /\ ppc[q] = "running")

\* C12: a read-only command (list, show, info, contains) is never ended by
\* the exclusion check.
C12_ReadOnlyNeverAborted ==
    \A p \in Pids : ReadOnly(pcmd[p]) => ppc[p] # "exit3"

\* ---------------------------------------------------------- properties of Spec
\* C13: a feed with two manifests of the same name makes the build fail, so a
\* completed build has no two package rows of the same name, and every edge
\* is owned by the row of the manifest that declared it.
C13_NamesUnique ==
    mpc = "done" =>
        /\ \A i, j \in DOMAIN feed : feed[i].name = feed[j].name => i = j
        /\ \A i, j \in DOMAIN dbpackages : dbpackages[i].name = dbpackages[j].name => i = j
        /\ \A i \in DOMAIN packages : \A dn \in packages[i].deps :
            \E e \in dbdeps : e.pkgid = i /\ e.name = dn

\* C14: a rebuild that stops part-way leaves the database either as it was
\* before the rebuild started or fully built: with a row for every manifest
\* of the feed and an edge for every dependency of each.
BeforeRun == IF runs = 1 THEN NoDb ELSE Db(prevcat.packages, prevcat.deps)
FullyBuilt(db) ==
    /\ db.exists
    /\ Len(db.packages) >= Len(feed)
    /\ \A i \in DOMAIN feed :
        /\ db.packages[i] = Row(feed[i])
        /\ \A dn \in feed[i].deps :
            \E e \in db.deps : e.name = dn /\ db.packages[e.pkgid].name = feed[i].name
C14_AllOrNothing ==
    mpc = "aborted" => (committed = BeforeRun \/ FullyBuilt(committed))

\* C15: a failure that concerns one artifact (its manifest cannot be
\* extracted or lacks a member, its re-fetch fails) does not end the pass:
\* neither makedb's reconciliation loop nor upgrade stops on an exception.
C15_PassContinues ==
    /\ mpc \notin {"crashed", "aborted"}
    /\ cmd = "upgrade" => rpc # "crashed"

\* C16: an unresolved dependency in the closure of a package of the catalog
\* is not fatal: show lists the package and every resolved dependency of the
\* closure and does not report non-existence; get and refresh, when they
\* have gone through the closure, leave every resolved dependency on disk.
Resolved(ids) == Range(ids) \ {Unresolved}
C16_UnresolvedNotFatal ==
    (Returned /\ HasName(dbpackages, arg) /\ Unresolved \in Range(rv)) =>
        /\ (cmd = "show" /\ rpc = "done") =>
            /\ out.kind = "shown"
            /\ out.names = {dbpackages[i].repopath : i \in Resolved(rv)}
        /\ (cmd \in {"get", "refresh"} /\ rpc \in {"done", "refresh"}) =>
            \A i \in Resolved(rv) : disk[dbpackages[i].repopath].here

\* C17: when the starting package is not reachable from itself, deps returns,
\* with every reachable id in the list, also when its descendants form a
\* cycle and when unresolved edges are present; the loop test is false
\* exactly when the last query brought no id that is not yet in alldeps.
NewIds == Range(newdeps) \ Range(alldeps)
C17_StopsAtFixedPoint ==
    (pkgid # None /\ ~OnCycle(pkgid)) =>
        /\ (rpc = "deps" /\ rounds >= 1) => (LoopTest(newdeps, alldeps) <=> NewIds # {})
        /\ rpc = "deps" => rounds <= Cardinality(Reach(pkgid)) + 1
        /\ Returned => (NewIds = {} /\ Range(rv) = Reach(pkgid))

\* deps has returned for a package whose dependencies form a cycle of two
\* among themselves and have an unresolved edge.
C17_Witness ==
    /\ Returned /\ pkgid # None /\ ~OnCycle(pkgid)
    /\ \E id \in Reach(pkgid) : OnCycle(id) /\ id \notin Succ({id})
    /\ Unresolved \in Range(rv)

\* C18: leaves completes without error whatever the catalog and the
\* artifacts on disk are.
C18_LeavesCompletes == cmd = "leaves" => rpc # "crashed"

\* C19: when makedb's reconciliation loop or upgrade has ended, every package
\* that had an artifact on disk when the pass began still has one, also when
\* a fetch failed.
HadArtifact(n) == \E f \in Files : FileName(f) = n /\ startdisk[f].here
HasArtifact(n) == \E f \in Files : FileName(f) = n /\ disk[f].here
PassEnded ==
    \/ cmd = "" /\ mpc \in {"deps", "done", "aborted"}
    \/ cmd = "upgrade" /\ rpc \in {"done", "crashed"}
C19_NoArtifactLost ==
    PassEnded => \A n \in PkgNames : HadArtifact(n) => HasArtifact(n)

====
